---- MODULE Spec2Model ----
(***************************************************************************)
(* The medicine dashboard: the CSV loaded into the module global `data`,   *)
(* the three controls of app.layout, and the callback update_graph in its  *)
(* two variants (new.py with the data table, triall.py without).           *)
(*                                                                         *)
(* A DataFrame is a sequence of rows; each row carries its index label     *)
(* `idx` next to the five columns.  A plotly figure is a record            *)
(* [kind, data, hovertemplate]; the Python value {} is NoFigure.  The      *)
(* plotly express constructors are taken to be total: they build a figure  *)
(* from any frame, an empty one included.                                  *)
(***************************************************************************)
EXTENDS Integers, Sequences, FiniteSets, TLC

VARIABLES data, startup, category_options, slider,
          graph_type, category_filter, price_range,
          result, resultT, pc, first

vars == <<data, startup, category_options, slider,
          graph_type, category_filter, price_range,
          result, resultT, pc, first>>

----------------------------------------------------------------------------
(* Bounds of the explored inputs *)

MaxRows == 2
MaxPrice == 2

(* The CSV files explored: row i is the medicine Names[i], of dosage 5*i    *)
(* and quantity i; its price and its category are free                     *)
Names == <<"A", "B", "C", "D">>
Prices == 1..MaxPrice
Categories == {"Fever", "Pain"}
(* the order pandas' groupby sorts the category keys in *)
CatOrder == <<"Fever", "Pain">>

(* Python's None, the value of a cleared dropdown *)
None == "None"

CsvRow(i, price, category) ==
  [Medicine |-> Names[i], Price |-> price, Dosage |-> 5 * i, Quantity |-> i,
   Category |-> category]

CsvFiles ==
  UNION {{[i \in 1..n |-> CsvRow(i, ps[i], cs[i])] :
            ps \in [1..n -> Prices], cs \in [1..n -> Categories]} : n \in 1..MaxRows}

(* The values the callback can be invoked with *)
GraphTypeOptions == {"category_dist", "price_dist", "dosage_price", "quantity", "all"}
GraphTypes == GraphTypeOptions \cup {None}
CategoryValues == {"All"} \cup Categories \cup {None}
PriceRanges == {r \in (1..(MaxPrice + 1)) \X (1..(MaxPrice + 1)) : r[1] <= r[2]}

Slots == {"category_dist", "price_dist", "dosage_price", "quantity"}

----------------------------------------------------------------------------
(* pandas *)

(* pd.read_csv: the rows of the file under a RangeIndex *)
read_csv(csv) ==
  [i \in 1..Len(csv) |->
     [idx |-> i - 1, Medicine |-> csv[i].Medicine, Price |-> csv[i].Price,
      Dosage |-> csv[i].Dosage, Quantity |-> csv[i].Quantity,
      Category |-> csv[i].Category]]

(* df[mask]: the rows whose mask entry is true, in the frame's order *)
RECURSIVE BoolIndex(_, _)
BoolIndex(df, mask) ==
  IF Len(df) = 0 THEN <<>>
  ELSE IF mask[1] THEN <<df[1]>> \o BoolIndex(Tail(df), Tail(mask))
       ELSE BoolIndex(Tail(df), Tail(mask))

(* (data['Price'] >= price_range[0]) & (data['Price'] <= price_range[1]) *)
PriceMaskFlipped(df, pr) ==
  [i \in 1..Len(df) |-> (df[i].Price <= pr[1]) /\ (df[i].Price <= pr[2])]

PriceMaskStrict(df, pr) ==
  [i \in 1..Len(df) |-> (df[i].Price >= pr[1]) /\ (df[i].Price < pr[2])]

PriceMask(df, pr) ==
  [i \in 1..Len(df) |-> (df[i].Price >= pr[1]) /\ (df[i].Price <= pr[2])]

(* filtered_data['Category'] == category_filter *)
CategoryMask(df, cf) ==
  [i \in 1..Len(df) |-> df[i].Category = cf]

(* the filter both variants start with *)
FilterData(df, cf, pr) ==
  LET byPrice == BoolIndex(df, PriceMask(df, pr))
  IN  IF cf # "All" THEN BoolIndex(byPrice, CategoryMask(byPrice, cf))
      ELSE byPrice

(* filtered_data.shape[0] == 0 *)
NeverEmpty(df) == FALSE

IsEmptyFrame(df) == Len(df) = 0

(* Series.unique(): the distinct values in order of first appearance *)
RECURSIVE UniqueFrom(_, _)
UniqueFrom(seq, seen) ==
  IF Len(seq) = 0 THEN <<>>
  ELSE IF seq[1] \in seen THEN UniqueFrom(Tail(seq), seen)
       ELSE <<seq[1]>> \o UniqueFrom(Tail(seq), seen \cup {seq[1]})

Column(df, col) == [i \in 1..Len(df) |-> df[i][col]]

Unique(seq) == UniqueFrom(seq, {})

(* Series.min() and Series.max() of the Price column *)
PriceMin(df) == CHOOSE p \in {df[i].Price : i \in 1..Len(df)} :
                  \A i \in 1..Len(df) : p <= df[i].Price

PriceMax(df) == CHOOSE p \in {df[i].Price : i \in 1..Len(df)} :
                  \A i \in 1..Len(df) : p >= df[i].Price

(* Series.sum() of the Quantity column over the rows of one category *)
RECURSIVE SumQuantity(_, _)
SumQuantity(df, cat) ==
  IF Len(df) = 0 THEN 0
  ELSE (IF df[1].Category = cat THEN df[1].Quantity ELSE 0)
       + SumQuantity(Tail(df), cat)

RECURSIVE CountRows(_, _)
CountRows(df, cat) ==
  IF Len(df) = 0 THEN 0
  ELSE (IF df[1].Category = cat THEN 1 ELSE 0) + CountRows(Tail(df), cat)

(* df.groupby('Category')['Quantity'].sum().reset_index(): one row per     *)
(* category present in df, in sorted key order                             *)
RECURSIVE GroupRows(_, _, _)
GroupRows(df, keys, agg) ==
  IF Len(keys) = 0 THEN <<>>
  ELSE LET rest == GroupRows(df, Tail(keys), agg)
       IN  IF \E i \in 1..Len(df) : df[i].Category = keys[1]
           THEN <<[Category |-> keys[1],
                   Quantity |-> IF agg = "sum" THEN SumQuantity(df, keys[1])
                                ELSE CountRows(df, keys[1])]>> \o rest
           ELSE rest

GroupByCount(df) == GroupRows(df, CatOrder, "count")

GroupBySum(df) == GroupRows(df, CatOrder, "sum")

(* filtered_data[[five columns]].to_dict('records'): the index is dropped *)
to_dict_records(df) ==
  [i \in 1..Len(df) |->
     [Medicine |-> df[i].Medicine, Price |-> df[i].Price, Dosage |-> df[i].Dosage,
      Quantity |-> df[i].Quantity, Category |-> df[i].Category]]

----------------------------------------------------------------------------
(* plotly express *)

NoFigure == [kind |-> "none", data |-> <<>>, hovertemplate |-> "none"]

(* px.bar(x='Category', color='Category'): per category, in order of first *)
(* appearance, one bar for every row of it                                 *)
px_bar(df) ==
  LET cats == Unique(Column(df, "Category"))
  IN  [kind |-> "bar",
       data |-> [k \in 1..Len(cats) |->
                   [Category |-> cats[k], count |-> CountRows(df, cats[k])]],
       hovertemplate |-> "default"]

(* px.box(x='Category', y='Price') *)
px_box(df) ==
  [kind |-> "box",
   data |-> [i \in 1..Len(df) |-> [Category |-> df[i].Category, Price |-> df[i].Price]],
   hovertemplate |-> "default"]

(* px.scatter(x='Dosage', y='Price', color='Category') *)
px_scatter(df) ==
  [kind |-> "scatter",
   data |-> [i \in 1..Len(df) |->
               [Dosage |-> df[i].Dosage, Price |-> df[i].Price,
                Category |-> df[i].Category]],
   hovertemplate |-> "default"]

(* px.pie(names='Category', values='Quantity') over the grouped frame *)
px_pie(grouped) ==
  [kind |-> "pie", data |-> grouped, hovertemplate |-> "default"]

----------------------------------------------------------------------------
(* new.py *)

(* the nine Outputs of the callback, in the order of the decorator *)
Outputs(f1, f2, f3, f4, s1, s2, s3, s4, table) ==
  [category_dist |-> f1, price_dist |-> f2, dosage_price |-> f3, quantity |-> f4,
   category_dist_div |-> s1, price_dist_div |-> s2, dosage_price_div |-> s3,
   quantity_div |-> s4, medicine_table |-> table]

(* the four figures update_graph builds from the filtered frame *)
new_Figures(filtered) ==
  [category_dist |-> px_bar(filtered),
   price_dist |-> px_box(filtered),
   dosage_price |-> px_scatter(filtered),
   quantity |-> px_pie(GroupBySum(filtered))]

(* the return statements selected by graph_type *)
new_ReturnSwapped(gt, figs, table_data) ==
  IF gt = "all" THEN
    Outputs(figs.category_dist, figs.price_dist, figs.dosage_price, figs.quantity,
            "block", "block", "block", "block", table_data)
  ELSE IF gt = "category_dist" THEN
    Outputs(figs.category_dist, NoFigure, NoFigure, NoFigure,
            "block", "none", "none", "none", table_data)
  ELSE IF gt = "price_dist" THEN
    Outputs(NoFigure, figs.price_dist, NoFigure, NoFigure,
            "none", "none", "block", "none", table_data)
  ELSE IF gt = "dosage_price" THEN
    Outputs(NoFigure, NoFigure, figs.dosage_price, NoFigure,
            "none", "none", "block", "none", table_data)
  ELSE IF gt = "quantity" THEN
    Outputs(NoFigure, NoFigure, NoFigure, figs.quantity,
            "none", "none", "none", "block", table_data)
  ELSE
    Outputs(figs.category_dist, figs.price_dist, figs.dosage_price, figs.quantity,
            "none", "none", "none", "none", table_data)

new_ReturnDefaultAll(gt, figs, table_data) ==
  IF gt = "category_dist" THEN
    Outputs(figs.category_dist, NoFigure, NoFigure, NoFigure,
            "block", "none", "none", "none", table_data)
  ELSE IF gt = "price_dist" THEN
    Outputs(NoFigure, figs.price_dist, NoFigure, NoFigure,
            "none", "block", "none", "none", table_data)
  ELSE IF gt = "dosage_price" THEN
    Outputs(NoFigure, NoFigure, figs.dosage_price, NoFigure,
            "none", "none", "block", "none", table_data)
  ELSE IF gt = "quantity" THEN
    Outputs(NoFigure, NoFigure, NoFigure, figs.quantity,
            "none", "none", "none", "block", table_data)
  ELSE
    Outputs(figs.category_dist, figs.price_dist, figs.dosage_price, figs.quantity,
            "block", "block", "block", "block", table_data)

new_Return(gt, figs, table_data) ==
  IF gt = "all" THEN
    Outputs(figs.category_dist, figs.price_dist, figs.dosage_price, figs.quantity,
            "block", "block", "block", "block", table_data)
  ELSE IF gt = "category_dist" THEN
    Outputs(figs.category_dist, NoFigure, NoFigure, NoFigure,
            "block", "none", "none", "none", table_data)
  ELSE IF gt = "price_dist" THEN
    Outputs(NoFigure, figs.price_dist, NoFigure, NoFigure,
            "none", "block", "none", "none", table_data)
  ELSE IF gt = "dosage_price" THEN
    Outputs(NoFigure, NoFigure, figs.dosage_price, NoFigure,
            "none", "none", "block", "none", table_data)
  ELSE IF gt = "quantity" THEN
    Outputs(NoFigure, NoFigure, NoFigure, figs.quantity,
            "none", "none", "none", "block", table_data)
  ELSE
    Outputs(figs.category_dist, figs.price_dist, figs.dosage_price, figs.quantity,
            "none", "none", "none", "none", table_data)

(* update_graph of new.py *)
new_update_graph(df, gt, cf, pr) ==
  LET filtered_data == FilterData(df, cf, pr)
  IN  IF IsEmptyFrame(filtered_data)
      THEN Outputs(NoFigure, NoFigure, NoFigure, NoFigure,
                   "none", "none", "none", "none", <<>>)
      ELSE new_Return(gt, new_Figures(filtered_data), to_dict_records(filtered_data))

(* what a call of update_graph leaves in the module global `data`:         *)
(* filtered_data is a local name, the global is never assigned             *)
DataFilteredInPlace(df, cf, pr) == FilterData(df, cf, pr)

DataAfterCall(df, cf, pr) == df

----------------------------------------------------------------------------
(* triall.py *)

(* the eight Outputs of the callback of triall.py *)
OutputsT(f1, f2, f3, f4, s1, s2, s3, s4) ==
  [category_dist |-> f1, price_dist |-> f2, dosage_price |-> f3, quantity |-> f4,
   category_dist_div |-> s1, price_dist_div |-> s2, dosage_price_div |-> s3,
   quantity_div |-> s4]

(* the four figures; the scatter plot gets its own hovertemplate *)
triall_Figures(filtered) ==
  [category_dist |-> px_bar(filtered),
   price_dist |-> px_box(filtered),
   dosage_price |-> [px_scatter(filtered) EXCEPT !.hovertemplate = "custom"],
   quantity |-> px_pie(GroupBySum(filtered))]

triall_Return(gt, figs) ==
  IF gt = "all" THEN
    OutputsT(figs.category_dist, figs.price_dist, figs.dosage_price, figs.quantity,
             "block", "block", "block", "block")
  ELSE IF gt = "category_dist" THEN
    OutputsT(figs.category_dist, NoFigure, NoFigure, NoFigure,
             "block", "none", "none", "none")
  ELSE IF gt = "price_dist" THEN
    OutputsT(NoFigure, figs.price_dist, NoFigure, NoFigure,
             "none", "block", "none", "none")
  ELSE IF gt = "dosage_price" THEN
    OutputsT(NoFigure, NoFigure, figs.dosage_price, NoFigure,
             "none", "none", "block", "none")
  ELSE IF gt = "quantity" THEN
    OutputsT(NoFigure, NoFigure, NoFigure, figs.quantity,
             "none", "none", "none", "block")
  ELSE
    OutputsT(figs.category_dist, figs.price_dist, figs.dosage_price, figs.quantity,
             "none", "none", "none", "none")

(* update_graph of triall.py: no check for an empty frame *)
triall_update_graph(df, gt, cf, pr) ==
  triall_Return(gt, triall_Figures(FilterData(df, cf, pr)))

----------------------------------------------------------------------------
(* app.layout: the initial properties of the components *)

(* options of the category dropdown *)
CategoryOptions(df) == <<"All">> \o Unique(Column(df, "Category"))

(* value of the price RangeSlider *)
SliderValueLow(df) == <<PriceMin(df), PriceMin(df)>>

SliderValue(df) == <<PriceMin(df), PriceMax(df)>>

(* the graphs, their divs and the table as the layout declares them *)
LayoutOutputs ==
  Outputs(NoFigure, NoFigure, NoFigure, NoFigure,
          "block", "block", "block", "block", <<>>)

LayoutOutputsT ==
  OutputsT(NoFigure, NoFigure, NoFigure, NoFigure,
           "block", "block", "block", "block")

----------------------------------------------------------------------------
(* The dashboard as a state machine *)

(* the module is imported: the CSV is read and the layout is built *)
Init ==
  \E csv \in CsvFiles :
    /\ data = read_csv(csv)
    /\ startup = read_csv(csv)
    /\ category_options = CategoryOptions(read_csv(csv))
    /\ slider = SliderValue(read_csv(csv))
    /\ graph_type = "all"
    /\ category_filter = "All"
    /\ price_range = SliderValue(read_csv(csv))
    /\ result = LayoutOutputs
    /\ resultT = LayoutOutputsT
    /\ pc = "layout"
    /\ first = <<>>

(* one dispatch of the callback with the given control values, in both     *)
(* variants                                                                *)
Dispatch(gt, cf, pr) ==
  /\ graph_type' = gt
  /\ category_filter' = cf
  /\ price_range' = pr
  /\ result' = new_update_graph(data, gt, cf, pr)
  /\ resultT' = triall_update_graph(data, gt, cf, pr)
  /\ data' = DataAfterCall(data, cf, pr)
  /\ UNCHANGED <<startup, category_options, slider>>

(* the page is opened: Dash fires the callback with the layout's values;   *)
(* `first` keeps the arguments and the return value of this invocation     *)
InitialCall ==
  /\ pc = "layout"
  /\ Dispatch(graph_type, category_filter, price_range)
  /\ first' = <<[graph_type |-> graph_type, category_filter |-> category_filter,
                 price_range |-> price_range,
                 result |-> new_update_graph(data, graph_type, category_filter,
                                             price_range),
                 resultT |-> triall_update_graph(data, graph_type, category_filter,
                                                 price_range)]>>
  /\ pc' = "initial"

(* the graph type dropdown is changed or cleared *)
SetGraphType ==
  /\ pc # "layout"
  /\ \E gt \in GraphTypes : Dispatch(gt, category_filter, price_range)
  /\ pc' = "interactive"
  /\ UNCHANGED first

(* the category dropdown is changed or cleared *)
SetCategory ==
  /\ pc # "layout"
  /\ \E cf \in CategoryValues : Dispatch(graph_type, cf, price_range)
  /\ pc' = "interactive"
  /\ UNCHANGED first

(* a handle of the price slider is moved *)
SetPriceRange ==
  /\ pc # "layout"
  /\ \E pr \in PriceRanges : Dispatch(graph_type, category_filter, pr)
  /\ pc' = "interactive"
  /\ UNCHANGED first

Next == InitialCall \/ SetGraphType \/ SetCategory \/ SetPriceRange

Spec == Init /\ [][Next]_vars

----------------------------------------------------------------------------
(* Vocabulary of the properties, stated on the rows and not through the    *)
(* operators of the callback                                               *)

Called == pc # "layout"

Columns == {"Medicine", "Price", "Dosage", "Quantity", "Category"}

(* a row as the table shows it *)
Shown(row) == [c \in Columns |-> row[c]]

(* the row passes the price range and the category selection *)
Passes(row, cf, pr) ==
  /\ pr[1] <= row.Price
  /\ row.Price <= pr[2]
  /\ (cf # "All" => row.Category = cf)

(* positions of the loaded rows that pass *)
Kept(cf, pr) == {i \in 1..Len(startup) : Passes(startup[i], cf, pr)}

(* the k-th smallest element of a set of positions *)
Nth(S, k) == CHOOSE i \in S : Cardinality({j \in S : j <= i}) = k

(* the passing rows of the loaded dataset in its order, as the table shows them *)
ExpectedRows(cf, pr) ==
  [k \in 1..Cardinality(Kept(cf, pr)) |-> Shown(startup[Nth(Kept(cf, pr), k)])]

(* the display style of the div around a slot *)
Style(r, slot) ==
  CASE slot = "category_dist" -> r.category_dist_div
    [] slot = "price_dist" -> r.price_dist_div
    [] slot = "dosage_price" -> r.dosage_price_div
    [] slot = "quantity" -> r.quantity_div

Visible(r, slot) == Style(r, slot) = "block"

(* s can be obtained from t by deleting elements *)
RECURSIVE IsSubSeq(_, _)
IsSubSeq(s, t) ==
  IF Len(s) = 0 THEN TRUE
  ELSE IF Len(t) = 0 THEN FALSE
  ELSE IF s[1] = t[1] THEN IsSubSeq(Tail(s), Tail(t))
  ELSE IsSubSeq(s, Tail(t))

(* criteria (cf2, pr2) narrow criteria (cf1, pr1) *)
Narrows(cf2, pr2, cf1, pr1) ==
  /\ pr1[1] <= pr2[1]
  /\ pr2[2] <= pr1[2]
  /\ (cf2 = cf1 \/ cf1 = "All")

(* sum of Quantity over the rows of a table at the positions S *)
RECURSIVE QuantityOver(_, _)
QuantityOver(rows, S) ==
  IF S = {} THEN 0
  ELSE LET k == CHOOSE k \in S : TRUE
       IN  rows[k].Quantity + QuantityOver(rows, S \ {k})

RECURSIVE PieTotal(_, _)
PieTotal(q, S) ==
  IF S = {} THEN 0
  ELSE LET k == CHOOSE k \in S : TRUE
       IN  q[k].Quantity + PieTotal(q, S \ {k})

----------------------------------------------------------------------------
(* C1: the table rows update_graph returns are exactly the loaded records  *)
(* with price_range[0] <= Price <= price_range[1] and, unless the category *)
(* is 'All', Category = category_filter, in the dataset's order, none      *)
(* duplicated or dropped; the graph type does not change them.             *)
C1_TableIsFilteredSubset ==
  Called =>
    /\ result.medicine_table = ExpectedRows(category_filter, price_range)
    /\ \A gt \in GraphTypes :
         new_update_graph(data, gt, category_filter, price_range).medicine_table
           = result.medicine_table

C1_Witness ==
  /\ Called
  /\ category_filter \in Categories
  /\ price_range[1] = price_range[2]
  /\ Len(result.medicine_table) > 0
  /\ Len(result.medicine_table) < Len(data)

(* C2: when no record passes the filter, new.py returns four empty chart   *)
(* slots, four hidden divs and an empty table, whatever the graph type.    *)
C2_EmptyInputLaw ==
  (Called /\ Kept(category_filter, price_range) = {}) =>
    /\ \A slot \in Slots : result[slot] = NoFigure /\ ~Visible(result, slot)
    /\ result.medicine_table = <<>>

C2_Witness ==
  /\ Called
  /\ Kept(category_filter, price_range) = {}
  /\ category_filter = "All"
  /\ graph_type = "all"

(* C3: with a non-empty filtered subset, a graph type naming a slot makes  *)
(* exactly that slot visible and 'all' makes all four visible, in both     *)
(* variants.                                                               *)
C3_VisibilityExclusive ==
  (Called /\ Kept(category_filter, price_range) # {}) =>
    /\ graph_type \in Slots =>
         \A slot \in Slots :
           /\ Visible(result, slot) <=> slot = graph_type
           /\ Visible(resultT, slot) <=> slot = graph_type
    /\ graph_type = "all" =>
         \A slot \in Slots : Visible(result, slot) /\ Visible(resultT, slot)

C3_Witness ==
  /\ Called
  /\ Kept(category_filter, price_range) # {}
  /\ graph_type = "price_dist"
  /\ Visible(result, "price_dist")

(* C4: a graph type outside the five options (None included) gives a       *)
(* complete result with all four divs hidden, in both variants, and the    *)
(* table of new.py still holds the filtered records.                       *)
C4_UnknownGraphTypeHidesAll ==
  (Called /\ graph_type \notin GraphTypeOptions) =>
    /\ DOMAIN result = DOMAIN LayoutOutputs
    /\ DOMAIN resultT = DOMAIN LayoutOutputsT
    /\ \A slot \in Slots : ~Visible(result, slot) /\ ~Visible(resultT, slot)
    /\ result.medicine_table = ExpectedRows(category_filter, price_range)

C4_Witness ==
  /\ Called
  /\ graph_type = None
  /\ Len(result.medicine_table) > 0
  /\ Len(result.medicine_table) < Len(data)

(* C5: the table returned for the current criteria is a sub-sequence of    *)
(* the table update_graph returns for any criteria they narrow, so it is   *)
(* never longer.                                                           *)
C5_Monotone ==
  Called =>
    \A cf1 \in CategoryValues, pr1 \in PriceRanges :
      Narrows(category_filter, price_range, cf1, pr1) =>
        LET wider == new_update_graph(data, graph_type, cf1, pr1).medicine_table
        IN  /\ IsSubSeq(result.medicine_table, wider)
            /\ Len(result.medicine_table) <= Len(wider)

C5_Witness ==
  /\ Called
  /\ category_filter \in Categories
  /\ \E pr1 \in PriceRanges :
       /\ Narrows(category_filter, price_range, "All", pr1)
       /\ pr1 # price_range
       /\ Len(result.medicine_table) > 0
       /\ Len(new_update_graph(data, graph_type, "All", pr1).medicine_table)
            > Len(result.medicine_table)

(* C6: update_graph never modifies the loaded dataset, every invocation    *)
(* returns what its criteria select from the dataset as loaded, and an     *)
(* invocation with the criteria of the first one returns what the first    *)
(* one returned.                                                           *)
C6_HistoryIndependent ==
  /\ data = startup
  /\ Called =>
       /\ result = new_update_graph(startup, graph_type, category_filter, price_range)
       /\ resultT = triall_update_graph(startup, graph_type, category_filter,
                                        price_range)
       /\ ( /\ graph_type = first[1].graph_type
            /\ category_filter = first[1].category_filter
            /\ price_range = first[1].price_range )
          => (result = first[1].result /\ resultT = first[1].resultT)

C6_Witness ==
  /\ pc = "interactive"
  /\ Len(data) > 1
  /\ graph_type = first[1].graph_type
  /\ category_filter = first[1].category_filter
  /\ price_range = first[1].price_range

(* C7: the quantity chart has one entry per category present in the table  *)
(* rows, valued with the sum of Quantity over the rows of that category,   *)
(* and the values add up to the sum of Quantity over all table rows.       *)
C7_QuantityPerCategory ==
  (Called /\ result.quantity # NoFigure) =>
    LET q == result.quantity.data
        rows == result.medicine_table
    IN  /\ \A i, j \in 1..Len(q) : i # j => q[i].Category # q[j].Category
        /\ {q[i].Category : i \in 1..Len(q)}
             = {rows[k].Category : k \in 1..Len(rows)}
        /\ \A i \in 1..Len(q) :
             q[i].Quantity
               = QuantityOver(rows, {k \in 1..Len(rows) :
                                       rows[k].Category = q[i].Category})
        /\ PieTotal(q, 1..Len(q)) = QuantityOver(rows, 1..Len(rows))

C7_Witness ==
  /\ Called
  /\ graph_type = "quantity"
  /\ result.quantity # NoFigure
  /\ Len(result.medicine_table) = 2
  /\ Len(result.quantity.data) = 1
  /\ result.quantity.data[1].Quantity = 3

(* C8: in every result of new.py a chart slot holds a figure exactly when  *)
(* its div is visible.                                                     *)
C8_FigureIffVisible ==
  Called =>
    \A slot \in Slots : (result[slot] # NoFigure) <=> Visible(result, slot)

(* C9: the two variants return the same four visibility flags and the same *)
(* pattern of empty and non-empty chart slots.                             *)
C9_VariantsAgree ==
  Called =>
    \A slot \in Slots :
      /\ Visible(result, slot) <=> Visible(resultT, slot)
      /\ (result[slot] = NoFigure) <=> (resultT[slot] = NoFigure)

(* C10: the control values seeded from the dataset are 'all', 'All' and    *)
(* [least Price, greatest Price]; the first invocation returns the whole   *)
(* dataset in order with all four divs visible; every category the         *)
(* dropdown offers selects a record under the seeded price range.          *)
C10_SeedSelectsEverything ==
  /\ pc = "initial" =>
       /\ graph_type = "all" /\ category_filter = "All"
       /\ \A i \in 1..Len(startup) :
            price_range[1] <= startup[i].Price /\ startup[i].Price <= price_range[2]
       /\ \E i, j \in 1..Len(startup) :
            price_range = <<startup[i].Price, startup[j].Price>>
       /\ result.medicine_table = [k \in 1..Len(startup) |-> Shown(startup[k])]
       /\ \A slot \in Slots : Visible(result, slot)
  /\ ( /\ Called
       /\ \E k \in 1..Len(category_options) : category_options[k] = category_filter
       /\ price_range = slider )
     => result.medicine_table # <<>>

C10_Witness ==
  /\ pc = "initial"
  /\ Len(startup) = 2
  /\ startup[1].Price > startup[2].Price
  /\ startup[1].Category # startup[2].Category
  /\ Len(category_options) = 3

====
